---- MODULE Spec2Model ----
(***************************************************************************)
(* Model of the order-statistics AVL tree of avl.py (class AVLTree on top  *)
(* of BinarySearchTree).                                                   *)
(*                                                                         *)
(* A node is a record [key, item, left, right, height, tree_size]; an      *)
(* absent node (Python None) is the empty tuple.  The tree owns its nodes  *)
(* hierarchically and no node is shared, so the in-place mutation of a     *)
(* node is modelled by rebuilding the record of the node and of the        *)
(* ancestors that hold it.  Every recursive routine returns, next to the   *)
(* node it returns in Python, the value of self.length and whether it      *)
(* raised; when it raised, `node` is the state in which the routine left   *)
(* the object it was called on.  Two more fields of that record are        *)
(* bookkeeping of the model: `rot` counts the rotations the call           *)
(* performed and `two` tells that a delete took the two-children case;     *)
(* `exc` names the exception raised.                                       *)
(*                                                                         *)
(* The module holds one specification per component: Spec (the tree),      *)
(* SpecRotate (rotations and rebalance as functions of a subtree),         *)
(* SpecHash (LinearProbeTable), SpecPrimes (LargestPrimeIterator),         *)
(* SpecPlayers (MultiplayerGame.generate_random_players) and SpecTrader    *)
(* (RangeTrader).  Each has its own variables and leaves the others at     *)
(* their idle values.                                                      *)
(***************************************************************************)
EXTENDS Integers, Sequences, FiniteSets, TLC

VARIABLES root, length, last, absmap, net,
          rstep,
          ht, hlast, hmap,
          pit, plast,
          gp

avlVars == <<root, length, last, absmap, net>>
rotVars == <<rstep>>
hashVars == <<ht, hlast, hmap>>
primeVars == <<pit, plast>>
gameVars == <<gp>>

vars == <<avlVars, rotVars, hashVars, primeVars, gameVars>>

(* ------------------------------ bounds --------------------------------- *)

MaxKey == 4

Keys == 1..MaxKey

\* The tree stores an item and hands it back, and never inspects it: two
\* payloads are enough to tell one entry's item from another's.
Items == {"p", "q"}
NoItem == "none"

Indices == (0 - 1)..MaxKey

(* ------------------------------ nodes ---------------------------------- *)

None == <<>>

NoError == "none"

Max(a, b) == IF a >= b THEN a ELSE b

AVLTreeNode(key, item) ==
    [key |-> key, item |-> item, left |-> None, right |-> None,
     height |-> 1, tree_size |-> 1]

get_tree_size(current) == IF current # None THEN current.tree_size ELSE 0

get_height(current) == IF current # None THEN current.height ELSE 0

get_balance(current) ==
    IF current = None THEN 0
    ELSE get_height(current.right) - get_height(current.left)

is_leaf(current) == current.left = None /\ current.right = None

RECURSIVE get_minimal(_)
get_minimal(current) ==
    IF current.left # None THEN get_minimal(current.left) ELSE current

get_successor(current) ==
    IF current.right = None THEN None ELSE get_minimal(current.right)

(* --------------------------- rotations --------------------------------- *)

\* left_rotate with the two recomputations swapped: the pivot first, from the
\* old root's stale fields, the old root second
left_rotate_child_first(current) ==
    LET child == current.right
        center == child.left
        cur1 == [current EXCEPT !.right = center]
        ch1 == [child EXCEPT !.left = cur1]
        ch2 == [ch1 EXCEPT
                  !.height =
                      1 + Max(get_height(ch1.left), get_height(ch1.right)),
                  !.tree_size =
                      1 + get_tree_size(ch1.left) + get_tree_size(ch1.right)]
        cur2 == [cur1 EXCEPT
                  !.height =
                      1 + Max(get_height(cur1.left), get_height(cur1.right)),
                  !.tree_size =
                      1 + get_tree_size(cur1.left) + get_tree_size(cur1.right)]
    IN [ch2 EXCEPT !.left = cur2]

\* left_rotate returning the old root instead of the pivot
left_rotate_returns_old_root(current) ==
    LET child == current.right
        center == child.left
        cur1 == [current EXCEPT !.right = center]
    IN [cur1 EXCEPT
          !.height = 1 + Max(get_height(cur1.left), get_height(cur1.right)),
          !.tree_size =
              1 + get_tree_size(cur1.left) + get_tree_size(cur1.right)]

\* child.left aliases current: the fields of child are recomputed from the
\* state current has at that moment (height first, then tree_size).
left_rotate(current) ==
    LET child == current.right
        center == child.left
        cur1 == [current EXCEPT !.right = center]
        cur2 == [cur1 EXCEPT !.height =
                    1 + Max(get_height(cur1.left), get_height(cur1.right))]
        ch1 == [child EXCEPT !.left = cur2]
        ch2 == [ch1 EXCEPT !.height =
                    1 + Max(get_height(ch1.left), get_height(ch1.right))]
        cur3 == [cur2 EXCEPT !.tree_size =
                    1 + get_tree_size(cur2.left) + get_tree_size(cur2.right)]
        ch3 == [ch2 EXCEPT !.left = cur3]
    IN [ch3 EXCEPT !.tree_size =
            1 + get_tree_size(ch3.left) + get_tree_size(ch3.right)]

\* right_rotate taking the pivot's left subtree as the centre tree
right_rotate_wrong_center(current) ==
    LET child == current.left
        center == child.left
        cur1 == [current EXCEPT !.left = center]
        cur2 == [cur1 EXCEPT
                  !.height =
                      1 + Max(get_height(cur1.left), get_height(cur1.right)),
                  !.tree_size =
                      1 + get_tree_size(cur1.left) + get_tree_size(cur1.right)]
        ch1 == [child EXCEPT !.right = cur2]
    IN [ch1 EXCEPT
          !.height = 1 + Max(get_height(ch1.left), get_height(ch1.right)),
          !.tree_size = 1 + get_tree_size(ch1.left) + get_tree_size(ch1.right)]

\* right_rotate without the recomputation of the two tree sizes
right_rotate_stale_sizes(current) ==
    LET child == current.left
        center == child.right
        cur1 == [current EXCEPT !.left = center]
        cur2 == [cur1 EXCEPT !.height =
                    1 + Max(get_height(cur1.left), get_height(cur1.right))]
        ch1 == [child EXCEPT !.right = cur2]
    IN [ch1 EXCEPT !.height =
            1 + Max(get_height(ch1.left), get_height(ch1.right))]

right_rotate(current) ==
    LET child == current.left
        center == child.right
        cur1 == [current EXCEPT !.left = center]
        cur2 == [cur1 EXCEPT !.height =
                    1 + Max(get_height(cur1.left), get_height(cur1.right))]
        ch1 == [child EXCEPT !.right = cur2]
        ch2 == [ch1 EXCEPT !.height =
                    1 + Max(get_height(ch1.left), get_height(ch1.right))]
        cur3 == [cur2 EXCEPT !.tree_size =
                    1 + get_tree_size(cur2.left) + get_tree_size(cur2.right)]
        ch3 == [ch2 EXCEPT !.right = cur3]
    IN [ch3 EXCEPT !.tree_size =
            1 + get_tree_size(ch3.left) + get_tree_size(ch3.right)]

\* rebalance that never rotates
rebalance_skipped(current) == current

\* rebalance acting only from a balance factor of 3
rebalance_threshold_3(current) ==
    IF get_balance(current) >= 3
    THEN LET child == current.right
             cur1 == IF get_height(child.left) > get_height(child.right)
                     THEN [current EXCEPT !.right = right_rotate(child)]
                     ELSE current
         IN left_rotate(cur1)
    ELSE IF get_balance(current) <= 0 - 3
    THEN LET child == current.left
             cur1 == IF get_height(child.right) > get_height(child.left)
                     THEN [current EXCEPT !.left = left_rotate(child)]
                     ELSE current
         IN right_rotate(cur1)
    ELSE current

\* rebalance without the inner rotation of the two double-rotation cases
rebalance_single_only(current) ==
    IF get_balance(current) >= 2 THEN left_rotate(current)
    ELSE IF get_balance(current) <= 0 - 2 THEN right_rotate(current)
    ELSE current

rebalance(current) ==
    IF get_balance(current) >= 2
    THEN LET child == current.right
             cur1 == IF get_height(child.left) > get_height(child.right)
                     THEN [current EXCEPT !.right = right_rotate(child)]
                     ELSE current
         IN left_rotate(cur1)
    ELSE IF get_balance(current) <= 0 - 2
    THEN LET child == current.left
             cur1 == IF get_height(child.right) > get_height(child.left)
                     THEN [current EXCEPT !.left = left_rotate(child)]
                     ELSE current
         IN right_rotate(cur1)
    ELSE current

\* the number of rotations rebalance(current) performs
rebalance_rotations(current) ==
    IF get_balance(current) >= 2
    THEN IF get_height(current.right.left) > get_height(current.right.right)
         THEN 2 ELSE 1
    ELSE IF get_balance(current) <= 0 - 2
    THEN IF get_height(current.left.right) > get_height(current.left.left)
         THEN 2 ELSE 1
    ELSE 0

(* ----------------------------- insert ---------------------------------- *)

\* insert_leaf without `self.length += 1`
insert_leaf_no_increment(key, item, len) ==
    [node |-> AVLTreeNode(key, item), length |-> len, raised |-> FALSE,
     rot |-> 0, two |-> FALSE, exc |-> NoError]

\* lines 70-72: a new node at an empty position, one more element
insert_leaf(key, item, len) ==
    [node |-> AVLTreeNode(key, item), length |-> len + 1, raised |-> FALSE,
     rot |-> 0, two |-> FALSE, exc |-> NoError]

\* insert_duplicate as an update: the item is replaced and nothing is raised
insert_duplicate_overwrite(current, item, len) ==
    [node |-> [current EXCEPT !.item = item], length |-> len,
     raised |-> FALSE, rot |-> 0, two |-> FALSE, exc |-> NoError]

\* lines 78-79: the key is already at `current`
insert_duplicate(current, item, len) ==
    [node |-> current, length |-> len, raised |-> TRUE,
     rot |-> 0, two |-> FALSE, exc |-> "KeyError"]

\* lines 81-87: recompute the cached fields of current, then rebalance
insert_unwind(current) ==
    LET c1 == [current EXCEPT !.height =
                  1 + Max(get_height(current.left), get_height(current.right))]
        c2 == [c1 EXCEPT !.tree_size =
                  1 + get_tree_size(c1.left) + get_tree_size(c1.right)]
    IN rebalance(c2)

RECURSIVE insert_aux(_, _, _, _)
insert_aux(current, key, item, len) ==
    IF current = None
    THEN LET r == insert_leaf(key, item, len)
         IN [r EXCEPT !.node = insert_unwind(r.node),
                      !.rot = @ + rebalance_rotations(r.node)]
    ELSE IF key < current.key
    THEN LET r == insert_aux(current.left, key, item, len)
             c1 == [current EXCEPT !.left = r.node]
         IN IF r.raised THEN [r EXCEPT !.node = c1]
            ELSE [r EXCEPT !.node = insert_unwind(c1),
                           !.rot = @ + rebalance_rotations(c1)]
    ELSE IF key > current.key
    THEN LET r == insert_aux(current.right, key, item, len)
             c1 == [current EXCEPT !.right = r.node]
         IN IF r.raised THEN [r EXCEPT !.node = c1]
            ELSE [r EXCEPT !.node = insert_unwind(c1),
                           !.rot = @ + rebalance_rotations(c1)]
    ELSE insert_duplicate(current, item, len)

(* ----------------------------- delete ---------------------------------- *)

\* delete_absent returning None instead of raising
delete_absent_silent(len) ==
    [node |-> None, length |-> len, raised |-> FALSE,
     rot |-> 0, two |-> FALSE, exc |-> NoError]

\* lines 100-101: the key is not in the tree
delete_absent(len) ==
    [node |-> None, length |-> len, raised |-> TRUE,
     rot |-> 0, two |-> FALSE, exc |-> "ValueError"]

\* delete_excise without `self.length -= 1` in the right-child-only branch
delete_excise_no_decrement(current, len) ==
    IF is_leaf(current)
    THEN [node |-> None, length |-> len - 1, raised |-> FALSE,
          rot |-> 0, two |-> FALSE, exc |-> NoError]
    ELSE IF current.left = None
    THEN [node |-> current.right, length |-> len, raised |-> FALSE,
          rot |-> 0, two |-> FALSE, exc |-> NoError]
    ELSE [node |-> current.left, length |-> len - 1, raised |-> FALSE,
          rot |-> 0, two |-> FALSE, exc |-> NoError]

\* lines 107-115: the matched node has at most one child
delete_excise(current, len) ==
    IF is_leaf(current)
    THEN [node |-> None, length |-> len - 1, raised |-> FALSE,
          rot |-> 0, two |-> FALSE, exc |-> NoError]
    ELSE IF current.left = None
    THEN [node |-> current.right, length |-> len - 1, raised |-> FALSE,
          rot |-> 0, two |-> FALSE, exc |-> NoError]
    ELSE [node |-> current.left, length |-> len - 1, raised |-> FALSE,
          rot |-> 0, two |-> FALSE, exc |-> NoError]

\* copy_successor without `current.item = succ.item`
copy_successor_key_only(current, succ) ==
    [current EXCEPT !.key = succ.key]

\* copy_successor without `current.key = succ.key`
copy_successor_item_only(current, succ) ==
    [current EXCEPT !.item = succ.item]

RECURSIVE get_maximal(_)
get_maximal(current) ==
    IF current.right # None THEN get_maximal(current.right) ELSE current

\* copy_successor taking the entry of the in-order predecessor instead
copy_successor_predecessor(current, succ) ==
    LET pred == get_maximal(current.left)
    IN [current EXCEPT !.key = pred.key, !.item = pred.item]

\* lines 119-120: the matched node takes over its successor's entry
copy_successor(current, succ) ==
    [current EXCEPT !.key = succ.key, !.item = succ.item]

\* lines 123-130: recompute the cached fields of current, then rebalance
delete_unwind(current) ==
    LET c1 == [current EXCEPT !.height =
                  1 + Max(get_height(current.left), get_height(current.right))]
        c2 == [c1 EXCEPT !.tree_size =
                  1 + get_tree_size(c1.left) + get_tree_size(c1.right)]
    IN rebalance(c2)

RECURSIVE delete_aux(_, _, _)
delete_aux(current, key, len) ==
    IF current = None
    THEN delete_absent(len)
    ELSE IF key < current.key
    THEN LET r == delete_aux(current.left, key, len)
             c1 == [current EXCEPT !.left = r.node]
         IN IF r.raised THEN [r EXCEPT !.node = c1]
            ELSE [r EXCEPT !.node = delete_unwind(c1),
                           !.rot = @ + rebalance_rotations(c1)]
    ELSE IF key > current.key
    THEN LET r == delete_aux(current.right, key, len)
             c1 == [current EXCEPT !.right = r.node]
         IN IF r.raised THEN [r EXCEPT !.node = c1]
            ELSE [r EXCEPT !.node = delete_unwind(c1),
                           !.rot = @ + rebalance_rotations(c1)]
    ELSE IF is_leaf(current) \/ current.left = None \/ current.right = None
    THEN delete_excise(current, len)
    ELSE LET succ == get_successor(current)
             c1 == copy_successor(current, succ)
             r == delete_aux(c1.right, succ.key, len)
             c2 == [c1 EXCEPT !.right = r.node]
         IN IF r.raised THEN [r EXCEPT !.node = c2, !.two = TRUE]
            ELSE [r EXCEPT !.node = delete_unwind(c2), !.two = TRUE,
                           !.rot = @ + rebalance_rotations(c2)]

(* ----------------------------- queries --------------------------------- *)

RECURSIVE range_between_aux(_, _, _, _, _)
range_between_aux(current, i, j, max_index, l) ==
    IF current = None THEN l
    ELSE LET current_index ==
                 IF current.right = None THEN max_index
                 ELSE max_index - current.right.tree_size
             l1 == IF current_index > i
                   THEN range_between_aux(current.left, i, j,
                                          current_index - 1, l)
                   ELSE l
             l2 == IF i <= current_index /\ current_index <= j
                   THEN Append(l1, current.item)
                   ELSE l1
         IN IF current_index < j
            THEN range_between_aux(current.right, i, j, max_index, l2)
            ELSE l2

\* range_between_visits descending into both children of every node
RECURSIVE range_between_visits_unpruned(_, _, _, _)
range_between_visits_unpruned(current, i, j, max_index) ==
    IF current = None THEN 0
    ELSE 1 + range_between_visits_unpruned(current.left, i, j, max_index)
           + range_between_visits_unpruned(current.right, i, j, max_index)

\* lines 258-280 again, counting the calls that get a node instead of
\* collecting the items
RECURSIVE range_between_visits(_, _, _, _)
range_between_visits(current, i, j, max_index) ==
    IF current = None THEN 0
    ELSE LET current_index ==
                 IF current.right = None THEN max_index
                 ELSE max_index - current.right.tree_size
         IN 1 + (IF current_index > i
                 THEN range_between_visits(current.left, i, j,
                                           current_index - 1)
                 ELSE 0)
              + (IF current_index < j
                 THEN range_between_visits(current.right, i, j, max_index)
                 ELSE 0)

\* range_between starting from max_index = self.length
range_between_off_by_one(rt, len, i, j) ==
    range_between_aux(rt, i, j, len, <<>>)

\* range_between with an argument check that answers an empty list
range_between_empty_on_invalid(rt, len, i, j) ==
    IF 0 <= i /\ i <= j /\ j < len
    THEN range_between_aux(rt, i, j, len - 1, <<>>)
    ELSE <<>>

\* range_between handing range_between_aux the list of the call before
\* instead of a new one
range_between_shared_list(rt, len, i, j) ==
    range_between_aux(rt, i, j, len - 1,
                      IF last.op = "range_between" THEN last.ret ELSE <<>>)

\* line 242
range_between(rt, len, i, j) ==
    range_between_aux(rt, i, j, len - 1, <<>>)

\* get_max without the descent to the right
get_max_loop_root(current) == <<current.key, current.item>>

RECURSIVE get_max_loop(_)
get_max_loop(current) ==
    IF current.right # None THEN get_max_loop(current.right)
    ELSE <<current.key, current.item>>

\* get_max answering None on an empty tree instead of failing
get_max_none_on_empty(rt) ==
    IF rt = None
    THEN [raised |-> FALSE, exc |-> NoError, ret |-> None]
    ELSE [raised |-> FALSE, exc |-> NoError, ret |-> get_max_loop(rt)]

\* root = None: `current.right` fails with an AttributeError
get_max(rt) ==
    IF rt = None
    THEN [raised |-> TRUE, exc |-> "AttributeError", ret |-> None]
    ELSE [raised |-> FALSE, exc |-> NoError, ret |-> get_max_loop(rt)]

(* ------------------- BinarySearchTree entry points --------------------- *)

\* self.root = self.insert_aux(self.root, key, item)
setitem(rt, len, key, item) == insert_aux(rt, key, item, len)

\* self.root = self.delete_aux(self.root, key)
delitem(rt, len, key) == delete_aux(rt, key, len)

RECURSIVE getitem(_, _)
getitem(current, key) ==
    IF current = None THEN [raised |-> TRUE, ret |-> None]
    ELSE IF key = current.key THEN [raised |-> FALSE, ret |-> current.item]
    ELSE IF key < current.key THEN getitem(current.left, key)
    ELSE getitem(current.right, key)

contains(rt, key) == ~getitem(rt, key).raised

(* --------------------------- state machine ----------------------------- *)

\* the values the variables of a component have in the specifications of
\* the other components
RotIdle == rstep = [op |-> "idle", arg |-> None, ret |-> None]

HashIdle ==
    /\ ht = [table |-> <<>>, count |-> 0, tablesize |-> 0,
             conflict_count |-> 0, probe_total |-> 0, probe_max |-> 0,
             rehash_count |-> 0]
    /\ hlast = [op |-> "idle", key |-> <<>>, data |-> NoItem,
                raised |-> FALSE, exc |-> NoError, ret |-> NoItem,
                found |-> FALSE]
    /\ hmap = <<>>

PrimeIdle ==
    /\ pit = [upper_bound |-> 0, factor |-> 0]
    /\ plast = [op |-> "idle", upper_bound |-> 0, ret |-> 0, none |-> TRUE]

GameIdle ==
    gp = [pc |-> "idle", caves |-> 0, amount |-> 0, players |-> <<>>]

\* absmap, net and last are history variables: the abstract finite map
\* (NoItem = no entry), the number of inserts that returned normally minus
\* the number of deletes that returned normally, and the most recent call
\* with its outcome.
Init ==
    /\ root = None
    /\ length = 0
    /\ last = [op |-> "init", a |-> 0, b |-> 0, raised |-> FALSE,
               exc |-> NoError, rot |-> 0, two |-> FALSE, ret |-> None]
    /\ absmap = [k \in Keys |-> NoItem]
    /\ net = 0
    /\ RotIdle /\ HashIdle /\ PrimeIdle /\ GameIdle

Insert(key, item) ==
    /\ LET r == setitem(root, length, key, item)
       IN /\ root' = r.node
          /\ length' = r.length
          /\ last' = [op |-> "insert", a |-> key, b |-> item,
                      raised |-> r.raised, exc |-> r.exc,
                      rot |-> r.rot, two |-> r.two,
                      ret |-> None]
          /\ net' = IF r.raised THEN net ELSE net + 1
    /\ absmap' = IF absmap[key] = NoItem THEN [absmap EXCEPT ![key] = item]
                 ELSE absmap
    /\ UNCHANGED <<rotVars, hashVars, primeVars, gameVars>>

Delete(key) ==
    /\ LET r == delitem(root, length, key)
       IN /\ root' = r.node
          /\ length' = r.length
          /\ last' = [op |-> "delete", a |-> key, b |-> 0,
                      raised |-> r.raised, exc |-> r.exc,
                      rot |-> r.rot, two |-> r.two,
                      ret |-> None]
          /\ net' = IF r.raised THEN net ELSE net - 1
    /\ absmap' = [absmap EXCEPT ![key] = NoItem]
    /\ UNCHANGED <<rotVars, hashVars, primeVars, gameVars>>

RangeBetween(i, j) ==
    /\ last' = [op |-> "range_between", a |-> i, b |-> j, raised |-> FALSE,
                exc |-> NoError, rot |-> 0, two |-> FALSE,
                ret |-> range_between(root, length, i, j)]
    /\ UNCHANGED <<root, length, absmap, net>>
    /\ UNCHANGED <<rotVars, hashVars, primeVars, gameVars>>

GetMax ==
    /\ LET r == get_max(root)
       IN last' = [op |-> "get_max", a |-> 0, b |-> 0, raised |-> r.raised,
                   exc |-> r.exc, rot |-> 0, two |-> FALSE, ret |-> r.ret]
    /\ UNCHANGED <<root, length, absmap, net>>
    /\ UNCHANGED <<rotVars, hashVars, primeVars, gameVars>>

Next ==
    \/ \E key \in Keys, item \in Items : Insert(key, item)
    \/ \E key \in Keys : Delete(key)
    \/ \E i \in Indices, j \in Indices : RangeBetween(i, j)
    \/ GetMax

Spec == Init /\ [][Next]_vars

(* ---------------------- what a tree really holds ----------------------- *)

RECURSIVE InOrder(_)
InOrder(t) ==
    IF t = None THEN <<>>
    ELSE InOrder(t.left) \o <<<<t.key, t.item>>>> \o InOrder(t.right)

RECURSIVE NodeCount(_)
NodeCount(t) ==
    IF t = None THEN 0 ELSE 1 + NodeCount(t.left) + NodeCount(t.right)

RECURSIVE TrueHeight(_)
TrueHeight(t) ==
    IF t = None THEN 0
    ELSE 1 + Max(TrueHeight(t.left), TrueHeight(t.right))

RECURSIVE KeysOf(_)
KeysOf(t) ==
    IF t = None THEN {}
    ELSE KeysOf(t.left) \cup {t.key} \cup KeysOf(t.right)

TypeOK ==
    /\ length \in 0..MaxKey
    /\ net \in 0..MaxKey

(* ------------------------------ claims --------------------------------- *)

RECURSIVE Balanced(_)
Balanced(t) ==
    \/ t = None
    \/ /\ TrueHeight(t.left) - TrueHeight(t.right) \in {0 - 1, 0, 1}
       /\ Balanced(t.left)
       /\ Balanced(t.right)

\* C1: in every state reached by inserts and deletes (failing calls
\* included) every node's two subtrees differ in height by at most 1.
C1_AVLBalance == Balanced(root)

\* a delete went through and had to rotate on the way up
C1_Witness ==
    /\ last.op = "delete" /\ ~last.raised /\ last.rot >= 1
    /\ NodeCount(root) = 3

RECURSIVE Ordered(_)
Ordered(t) ==
    \/ t = None
    \/ /\ \A k \in KeysOf(t.left) : k < t.key
       /\ \A k \in KeysOf(t.right) : t.key < k
       /\ Ordered(t.left)
       /\ Ordered(t.right)

StrictlyAscending(s) ==
    \A n \in 1..(Len(s) - 1) : s[n][1] < s[n + 1][1]

\* C2: every node's key lies above all keys of its left subtree and below
\* all keys of its right subtree, and the in-order key sequence is strictly
\* ascending (no key twice), also after a two-children delete.
C2_BSTOrder == Ordered(root) /\ StrictlyAscending(InOrder(root))

\* a two-children delete went through and left a tree of three keys
C2_Witness ==
    /\ last.op = "delete" /\ ~last.raised /\ last.two
    /\ Len(InOrder(root)) = 3

RECURSIVE Consistent(_)
Consistent(t) ==
    \/ t = None
    \/ /\ t.height = 1 + Max(get_height(t.left), get_height(t.right))
       /\ t.height = TrueHeight(t)
       /\ t.tree_size = 1 + get_tree_size(t.left) + get_tree_size(t.right)
       /\ t.tree_size = NodeCount(t)
       /\ Consistent(t.left)
       /\ Consistent(t.right)

\* C3: whenever insert or delete has returned, every node's cached height
\* and tree_size equal their recursive definitions.
C3_CachedFields == Consistent(root)

\* an insert went through with a double rotation
C3_Witness ==
    /\ last.op = "insert" /\ ~last.raised /\ last.rot = 2
    /\ NodeCount(root) = 3

\* C4: the tree's length equals the number of nodes under the root, equals
\* root.tree_size (0 without a root), and equals the number of inserts that
\* went through minus the number of deletes that went through (net does not
\* move on a failed call, so neither does length).
C4_SizeAccounting ==
    /\ length = NodeCount(root)
    /\ length = get_tree_size(root)
    /\ length = net

\* a two-children delete went through and two keys are left
C4_Witness ==
    /\ last.op = "delete" /\ ~last.raised /\ last.two
    /\ length = 2 /\ net = 2

PairsOf(t) == {InOrder(t)[n] : n \in 1..Len(InOrder(t))}

AbsPairs == {<<k, absmap[k]>> : k \in {x \in Keys : absmap[x] # NoItem}}

\* C5: the (key, item) pairs stored in the tree are those of the abstract
\* map, one node per key; so lookup returns the item inserted with a present
\* key and fails for an absent one, and contains tells the two apart.
C5_MapRefinement ==
    /\ PairsOf(root) = AbsPairs
    /\ NodeCount(root) = Cardinality(AbsPairs)
    /\ \A k \in Keys :
          /\ contains(root, k) <=> absmap[k] # NoItem
          /\ absmap[k] # NoItem =>
                getitem(root, k) = [raised |-> FALSE, ret |-> absmap[k]]
          /\ absmap[k] = NoItem => getitem(root, k).raised

\* a two-children delete went through in a tree holding both payloads
C5_Witness ==
    /\ last.op = "delete" /\ ~last.raised /\ last.two
    /\ \E k1, k2 \in Keys :
          /\ absmap[k1] = "p" /\ absmap[k2] = "q"
          /\ k1 < last.a /\ last.a < k2

Leaf(key, item) ==
    [key |-> key, item |-> item, left |-> None, right |-> None,
     height |-> 1, tree_size |-> 1]

\* C6: an insert of a key the tree does not hold returns normally, makes the
\* key present with the given item, adds 1 to length and one node to the
\* tree; the node made at the empty position is a leaf of height 1 and
\* tree_size 1.
C6_InsertSuccess ==
    [][\A k \in Keys :
          (last'.op = "insert" /\ last'.a = k /\ k \notin KeysOf(root)) =>
             /\ ~last'.raised
             /\ PairsOf(root') = PairsOf(root) \cup {<<k, last'.b>>}
             /\ length' = length + 1
             /\ NodeCount(root') = NodeCount(root) + 1
             /\ insert_aux(None, k, last'.b, length).node = Leaf(k, last'.b)
      ]_vars

\* an insert went through and rotated on the way up
C6_Witness ==
    /\ last.op = "insert" /\ ~last.raised /\ last.rot = 1
    /\ last.a \in KeysOf(root) /\ length = 3

\* C7: an insert of a key the tree holds raises and leaves the root, every
\* node under it (shape, keys, items, heights, sizes) and length as they were.
C7_DuplicateInsert ==
    [][\A k \in Keys :
          (last'.op = "insert" /\ last'.a = k /\ k \in KeysOf(root)) =>
             /\ last'.raised /\ last'.exc = "KeyError"
             /\ root' = root
             /\ length' = length
      ]_vars

\* a duplicate insert with another item was rejected deep in a full tree
C7_Witness ==
    /\ last.op = "insert" /\ last.raised
    /\ length = 4 /\ root.key # last.a
    /\ absmap[last.a] # last.b

\* C8: a delete of a key the tree holds returns normally, makes the key
\* absent, takes 1 from length (once, also in the two-children case) and
\* removes one node, the other entries staying.
C8_DeleteSuccess ==
    [][\A k \in Keys :
          (last'.op = "delete" /\ last'.a = k /\ k \in KeysOf(root)) =>
             /\ ~last'.raised
             /\ k \notin KeysOf(root')
             /\ PairsOf(root') = {e \in PairsOf(root) : e[1] # k}
             /\ length' = length - 1
             /\ NodeCount(root') = NodeCount(root) - 1
      ]_vars

\* a two-children delete went through and rotated on the way up
C8_Witness ==
    /\ last.op = "delete" /\ ~last.raised /\ last.two /\ last.rot >= 1
    /\ last.a \notin KeysOf(root) /\ length = 3

\* C9: a delete of a key the tree does not hold (the tree may be empty)
\* raises and leaves the root, every node under it and length as they were.
C9_AbsentDelete ==
    [][\A k \in Keys :
          (last'.op = "delete" /\ last'.a = k /\ k \notin KeysOf(root)) =>
             /\ last'.raised /\ last'.exc = "ValueError"
             /\ root' = root
             /\ length' = length
      ]_vars

\* a delete of an absent key was rejected below the root of a tree
C9_Witness ==
    /\ last.op = "delete" /\ last.raised
    /\ length = 3 /\ last.a \notin KeysOf(root)

RECURSIVE ItemsUpTo(_)
ItemsUpTo(n) ==
    IF n = 0 THEN <<>>
    ELSE ItemsUpTo(n - 1) \o
         (IF absmap[n] # NoItem THEN <<absmap[n]>> ELSE <<>>)

\* the items of the abstract map in ascending order of their keys
SortedItems == ItemsUpTo(MaxKey)

\* C10: for 0 <= i <= j < length, range_between(i, j) returns the items at
\* positions i..j of the list of items sorted by key: j - i + 1 items, in
\* ascending key order.
C10_RankConsistency ==
    (/\ last.op = "range_between"
     /\ 0 <= last.a /\ last.a <= last.b /\ last.b < length) =>
        /\ last.ret = SubSeq(SortedItems, last.a + 1, last.b + 1)
        /\ Len(last.ret) = last.b - last.a + 1

\* an inner window of a full tree, holding two different items
C10_Witness ==
    /\ last.op = "range_between" /\ last.a = 1 /\ last.b = 2
    /\ length = 4 /\ last.ret = <<"p", "q">>

Min(a, b) == IF a <= b THEN a ELSE b

ValidRange(i, j, len) == 0 <= i /\ i <= j /\ j < len

\* C11 as claimed: range_between with i > j, i < 0 or j >= length fails with
\* a range error instead of returning a list.
C11_RangeErrorClaimed ==
    (last.op = "range_between" /\ ~ValidRange(last.a, last.b, length)) =>
        last.raised

\* C11 as the code has it: range_between with i > j, i < 0 or j >= length
\* raises nothing and returns the items whose rank lies in both i..j and
\* 0..length-1 (none when i > j), in key order; the tree is not changed.
C11_RangeUnchecked ==
    [][\A i \in Indices, j \in Indices :
          (/\ last'.op = "range_between" /\ last'.a = i /\ last'.b = j
           /\ ~ValidRange(i, j, length)) =>
             /\ ~last'.raised
             /\ last'.ret =
                   SubSeq(SortedItems, Max(i, 0) + 1, Min(j, length - 1) + 1)
             /\ root' = root
             /\ length' = length
      ]_vars

\* a window reaching past both ends of a full tree came back as a list
C11_Witness ==
    /\ last.op = "range_between" /\ last.a < 0 /\ last.b >= length
    /\ length = 3 /\ Len(last.ret) = 3 /\ ~last.raised

MaxKeyPresent == CHOOSE k \in Keys :
    /\ absmap[k] # NoItem
    /\ \A x \in Keys : absmap[x] # NoItem => x <= k

\* C12: on a non-empty tree get_max returns normally the pair of the
\* greatest key present and the item stored with that key.
C12_MaxCorrect ==
    (last.op = "get_max" /\ root # None) =>
        /\ ~last.raised
        /\ last.ret = <<MaxKeyPresent, absmap[MaxKeyPresent]>>
        /\ \A k \in KeysOf(root) : k <= last.ret[1]

\* the greatest key sits two levels below the root
C12_Witness ==
    /\ last.op = "get_max" /\ ~last.raised /\ length = 4
    /\ root.key # last.ret[1] /\ root.right.key # last.ret[1]

\* C13: get_max on an empty tree fails (an AttributeError on None) instead
\* of returning a pair, and the tree stays empty.
C13_EmptyMax ==
    [][(last'.op = "get_max" /\ root = None) =>
          /\ last'.raised /\ last'.exc = "AttributeError"
          /\ last'.ret = None
          /\ root' = None
          /\ length' = 0 /\ length = 0
      ]_vars

\* get_max failed on an empty tree
C13_Witness ==
    /\ last.op = "get_max" /\ last.raised /\ root = None

Perfect3(a, ia, b, ib, c, ic) ==
    [key |-> b, item |-> ib, height |-> 2, tree_size |-> 3,
     left |-> Leaf(a, ia), right |-> Leaf(c, ic)]

\* C14: a third key inserted into a tree of two keys gives, whatever the
\* order the three came in, the middle key at the root with the smallest
\* as left leaf and the greatest as right leaf (root height 2, tree_size 3,
\* leaves height 1, tree_size 1): without rotation when the root was already
\* the middle key, with a double rotation when the new key is the middle
\* one, with a single rotation otherwise.
C14_ThreeKeys ==
    [][(last'.op = "insert" /\ ~last'.raised /\ length = 2) =>
          \E a, b, c \in Keys :
             /\ a < b /\ b < c
             /\ KeysOf(root) \cup {last'.a} = {a, b, c}
             /\ root' = Perfect3(a, absmap'[a], b, absmap'[b], c, absmap'[c])
             /\ last'.rot = IF root.key = b THEN 0
                            ELSE IF last'.a = b THEN 2 ELSE 1
      ]_vars

\* the third key was the middle one and came up by a double rotation
C14_Witness ==
    /\ last.op = "insert" /\ ~last.raised /\ last.rot = 2
    /\ length = 3 /\ root.key = last.a

(* ------------- rotations and rebalance on their own --------------------- *)

AvlIdle ==
    /\ root = None
    /\ length = 0
    /\ last = [op |-> "init", a |-> 0, b |-> 0, raised |-> FALSE,
               exc |-> NoError, rot |-> 0, two |-> FALSE, ret |-> None]
    /\ absmap = [k \in Keys |-> NoItem]
    /\ net = 0

MaxNodes == 6

ItemOf(k) == IF k % 2 = 1 THEN "p" ELSE "q"

\* a node over two subtrees, its cached fields as insert_aux leaves them
NodeOver(k, l, r) ==
    [key |-> k, item |-> ItemOf(k), left |-> l, right |-> r,
     height |-> 1 + Max(get_height(l), get_height(r)),
     tree_size |-> 1 + get_tree_size(l) + get_tree_size(r)]

\* all search trees over the keys lo..hi, balanced or not
RECURSIVE BSTs(_, _)
BSTs(lo, hi) ==
    IF lo > hi THEN {None}
    ELSE UNION {{NodeOver(k, l, r) : l \in BSTs(lo, k - 1),
                                     r \in BSTs(k + 1, hi)} : k \in lo..hi}

Subtrees == UNION {BSTs(1, n) : n \in 0..MaxNodes}

\* rstep.ret is the subtree as it is now, rstep.arg what the last call got
InitRotate ==
    /\ \E t \in Subtrees : rstep = [op |-> "input", arg |-> t, ret |-> t]
    /\ AvlIdle /\ HashIdle /\ PrimeIdle /\ GameIdle

LeftRotate ==
    /\ rstep.ret # None
    /\ rstep.ret.right # None
    /\ rstep' = [op |-> "left_rotate", arg |-> rstep.ret,
                 ret |-> left_rotate(rstep.ret)]
    /\ UNCHANGED <<avlVars, hashVars, primeVars, gameVars>>

RightRotate ==
    /\ rstep.ret # None
    /\ rstep.ret.left # None
    /\ rstep' = [op |-> "right_rotate", arg |-> rstep.ret,
                 ret |-> right_rotate(rstep.ret)]
    /\ UNCHANGED <<avlVars, hashVars, primeVars, gameVars>>

Rebalance ==
    /\ rstep' = [op |-> "rebalance", arg |-> rstep.ret,
                 ret |-> rebalance(rstep.ret)]
    /\ UNCHANGED <<avlVars, hashVars, primeVars, gameVars>>

NextRotate == LeftRotate \/ RightRotate \/ Rebalance

SpecRotate == InitRotate /\ [][NextRotate]_vars

\* C19: rebalance on a node of balance factor +2 or -2 over two balanced
\* subtrees with true cached fields returns a subtree that is balanced at
\* every node, has true cached fields and the same in-order entries, after
\* at most two rotations; on a node of balance factor -1, 0 or 1 (or on no
\* node) it returns its argument as it was.
C19_RebalanceStep ==
    rstep.op = "rebalance" =>
        LET t == rstep.arg
            bf == get_balance(t)
        IN /\ (/\ bf \in {0 - 2, 2}
               /\ Balanced(t.left) /\ Consistent(t.left)
               /\ Balanced(t.right) /\ Consistent(t.right)) =>
                  /\ Balanced(rstep.ret)
                  /\ Consistent(rstep.ret)
                  /\ InOrder(rstep.ret) = InOrder(t)
                  /\ rebalance_rotations(t) \in {1, 2}
           /\ bf \in {0 - 1, 0, 1} =>
                  /\ rstep.ret = t
                  /\ rebalance_rotations(t) = 0

\* a left-heavy node over a right-heavy child: the double rotation
C19_Witness ==
    /\ rstep.op = "rebalance"
    /\ get_balance(rstep.arg) = 0 - 2
    /\ get_balance(rstep.arg.left) = 1
    /\ Balanced(rstep.arg.left) /\ rstep.arg.right = None
    /\ rstep.ret # rstep.arg

\* the fields of t alone, from the cached fields of its children
FieldsTrue(t) ==
    /\ t.height = 1 + Max(get_height(t.left), get_height(t.right))
    /\ t.tree_size = 1 + get_tree_size(t.left) + get_tree_size(t.right)
    /\ t.height = TrueHeight(t)
    /\ t.tree_size = NodeCount(t)

\* C20: left_rotate returns the former right child as root with the old
\* root as its left child, right_rotate the former left child with the old
\* root as its right child; the in-order entries are the same, the old root
\* and the pivot have true height and tree_size, and the three subtrees
\* hanging below them are the ones of before, untouched.
C20_SingleRotation ==
    LET t == rstep.arg
        r == rstep.ret
    IN /\ rstep.op = "left_rotate" =>
             /\ r.key = t.right.key /\ r.item = t.right.item
             /\ r.left.key = t.key /\ r.left.item = t.item
             /\ InOrder(r) = InOrder(t)
             /\ FieldsTrue(r.left) /\ FieldsTrue(r)
             /\ r.left.left = t.left
             /\ r.left.right = t.right.left
             /\ r.right = t.right.right
       /\ rstep.op = "right_rotate" =>
             /\ r.key = t.left.key /\ r.item = t.left.item
             /\ r.right.key = t.key /\ r.right.item = t.item
             /\ InOrder(r) = InOrder(t)
             /\ FieldsTrue(r.right) /\ FieldsTrue(r)
             /\ r.right.right = t.right
             /\ r.right.left = t.left.right
             /\ r.left = t.left.left

\* a right rotation that moved a non-empty centre subtree
C20_Witness ==
    /\ rstep.op = "right_rotate"
    /\ rstep.arg.left.right # None
    /\ rstep.arg.right # None /\ rstep.arg.left.left # None

(* ----------------------- primes.py: the iterator ----------------------- *)

MaxUpper == 70
MaxFactor == 2

\* pow(v, d, n)
RECURSIVE PowMod(_, _, _)
PowMod(v, d, n) == IF d = 0 THEN 1 % n ELSE (v * PowMod(v, d - 1, n)) % n

\* lines 23-27: n - 1 = d * 2^s with d odd
RECURSIVE split_even(_, _)
split_even(d, s) ==
    IF d % 2 = 0 THEN split_even(d \div 2, s + 1) ELSE [d |-> d, s |-> s]

\* lines 35-39: the squarings r = 1..s-1, TRUE when one of them gives n - 1
RECURSIVE squarings_good(_, _, _, _)
squarings_good(x, r, s, n) ==
    IF r >= s THEN FALSE
    ELSE LET x1 == (x * x) % n
         IN IF x1 = n - 1 THEN TRUE ELSE squarings_good(x1, r + 1, s, n)

vals == <<2, 7, 61>>

\* lines 28-42: the bases vals[idx..], stopping at the first one >= n
RECURSIVE witnesses_pass(_, _, _, _)
witnesses_pass(idx, d, s, n) ==
    IF idx > Len(vals) THEN TRUE
    ELSE IF vals[idx] >= n THEN TRUE
    ELSE LET x == PowMod(vals[idx], d, n)
         IN IF x = 1 \/ x = n - 1
            THEN witnesses_pass(idx + 1, d, s, n)
            ELSE IF squarings_good(x, 1, s, n)
                 THEN witnesses_pass(idx + 1, d, s, n)
                 ELSE FALSE

is_prime(n) ==
    IF n < 2 THEN FALSE
    ELSE LET ds == split_even(n - 1, 0)
         IN witnesses_pass(1, ds.d, ds.s, n)

\* lines 73-77: num = upper_bound - 1 down to 1; the loop running out is the
\* method ending without a return statement, that is returning None
RECURSIVE next_scan(_, _)
next_scan(num, it) ==
    IF num < 1
    THEN [it |-> it, ret |-> 0, none |-> TRUE]
    ELSE IF is_prime(num)
    THEN [it |-> [it EXCEPT !.upper_bound = num * it.factor],
          ret |-> num, none |-> FALSE]
    ELSE next_scan(num - 1, it)

prime_next(it) == next_scan(it.upper_bound - 1, it)

\* LargestPrimeIterator(upper_bound, factor)
InitPrimes ==
    /\ \E u \in (0 - 1)..MaxUpper, f \in 1..MaxFactor :
          pit = [upper_bound |-> u, factor |-> f]
    /\ plast = [op |-> "new", upper_bound |-> 0, ret |-> 0, none |-> TRUE]
    /\ AvlIdle /\ RotIdle /\ HashIdle /\ GameIdle

\* __next__, as long as the bound to search below stays within MaxUpper
PrimeNext ==
    /\ pit.upper_bound <= MaxUpper
    /\ LET r == prime_next(pit)
       IN /\ pit' = r.it
          /\ plast' = [op |-> "next", upper_bound |-> pit.upper_bound,
                       ret |-> r.ret, none |-> r.none]
    /\ UNCHANGED <<avlVars, rotVars, hashVars, gameVars>>

NextPrimes == PrimeNext

SpecPrimes == InitPrimes /\ [][NextPrimes]_vars

IsPrimeTrue(n) == n >= 2 /\ \A k \in 2..(n - 1) : n % k # 0

\* C18 as claimed: for every upper bound, those with no prime below them
\* included, __next__ returns the largest prime below the bound it had and
\* leaves upper_bound at that prime times factor.
C18_NextPrimeClaimed ==
    plast.op = "next" =>
        /\ ~plast.none
        /\ IsPrimeTrue(plast.ret)
        /\ plast.ret < plast.upper_bound
        /\ \A n \in (plast.ret + 1)..(plast.upper_bound - 1) : ~IsPrimeTrue(n)
        /\ pit.upper_bound = plast.ret * pit.factor

\* what does hold: is_prime is primality on every number within the bounds,
\* and from an upper bound of 3 on __next__ does as claimed; below 3 it
\* returns None and leaves upper_bound alone.
PrimeNextFromThree ==
    /\ \A n \in (0 - 1)..MaxUpper : is_prime(n) <=> IsPrimeTrue(n)
    /\ (plast.op = "next" /\ plast.upper_bound >= 3) =>
          /\ ~plast.none
          /\ IsPrimeTrue(plast.ret)
          /\ plast.ret < plast.upper_bound
          /\ \A n \in (plast.ret + 1)..(plast.upper_bound - 1) :
                ~IsPrimeTrue(n)
          /\ pit.upper_bound = plast.ret * pit.factor
    /\ (plast.op = "next" /\ plast.upper_bound < 3) =>
          /\ plast.none
          /\ pit.upper_bound = plast.upper_bound

(* ------------- game.py: MultiplayerGame.generate_random_players -------- *)

MaxCavesHeld == 4
MaxAmount == 4
MaxNames == 3

\* player.py: the names random_player draws from, by position in the list
PLAYER_NAMES == 1..MaxNames

\* MultiplayerGame() holding some number of caves; self.players = []
InitPlayers ==
    /\ \E c \in 0..MaxCavesHeld :
          gp = [pc |-> "game", caves |-> c, amount |-> 0, players |-> <<>>]
    /\ AvlIdle /\ RotIdle /\ HashIdle /\ PrimeIdle

\* line 338: the call empties self.players and reaches the while loop
GenerateRandomPlayers(amount) ==
    /\ gp.pc \in {"game", "done"}
    /\ gp' = [gp EXCEPT !.pc = "loop", !.amount = amount, !.players = <<>>]
    /\ UNCHANGED <<avlVars, rotVars, hashVars, primeVars>>

\* lines 339-350: one pass of the loop body, entered on len(self.caves) < amount
LoopBody(name) ==
    /\ gp.pc = "loop"
    /\ gp.caves < gp.amount
    /\ LET isin == \E n \in 1..Len(gp.players) : gp.players[n] = name
       IN gp' = [gp EXCEPT !.players = IF isin THEN @ ELSE Append(@, name)]
    /\ UNCHANGED <<avlVars, rotVars, hashVars, primeVars>>

\* line 339: the loop condition is false, the method returns
LoopExit ==
    /\ gp.pc = "loop"
    /\ ~(gp.caves < gp.amount)
    /\ gp' = [gp EXCEPT !.pc = "done"]
    /\ UNCHANGED <<avlVars, rotVars, hashVars, primeVars>>

NextPlayers ==
    \/ \E amount \in 0..MaxAmount : GenerateRandomPlayers(amount)
    \/ \E name \in PLAYER_NAMES : LoopBody(name)
    \/ LoopExit

SpecPlayers == InitPlayers /\ [][NextPlayers]_vars

\* C16 as claimed: when generate_random_players(amount) has returned,
\* self.players holds exactly amount players, whatever the number of caves.
C16_PlayersClaimed ==
    gp.pc = "done" => Len(gp.players) = gp.amount

\* what the code does: it returns only when the game holds at least amount
\* caves, and then with no player at all; the loop, once entered, is never
\* left, because its condition reads the caves, which the body leaves alone.
PlayersLoopOnCaves ==
    /\ gp.pc = "done" => (gp.players = <<>> /\ gp.caves >= gp.amount)
    /\ (gp.pc = "loop" /\ gp.caves < gp.amount) =>
          /\ ~ENABLED LoopExit
          /\ Len(gp.players) <= MaxNames

(* --------------------- trader.py: RangeTrader materials ---------------- *)

MaxMats == 2

\* a Material, as far as the trader reads it: its mining_rate and itself
Materials == [mining_rate : Keys, mat : Items]

\* RangeTrader(name): self.materials = AVLTree(); no attribute `material`
InitTrader ==
    /\ AvlIdle /\ RotIdle /\ HashIdle /\ PrimeIdle /\ GameIdle

\* lines 227-228: self.materials[mat.mining_rate] = mat for mats[idx..],
\* stopping at the first insert that raises
RECURSIVE set_all_loop(_, _, _)
set_all_loop(mats, idx, acc) ==
    IF idx > Len(mats) \/ acc.raised THEN acc
    ELSE LET r == setitem(acc.node, acc.length,
                          mats[idx].mining_rate, mats[idx].mat)
         IN set_all_loop(mats, idx + 1,
                         [r EXCEPT !.rot = acc.rot + r.rot])

\* lines 226-228
set_all_materials(mats) ==
    set_all_loop(mats, 1, [node |-> None, length |-> 0, raised |-> FALSE,
                           exc |-> NoError, rot |-> 0, two |-> FALSE])

\* lines 235-236
add_material(rt, len, m) == setitem(rt, len, m.mining_rate, m.mat)

\* lines 240-241: the assert passes, then self.material is looked up on an
\* object that has no such attribute, before any tree is touched
remove_material(rt, len, m) ==
    [node |-> rt, length |-> len, raised |-> TRUE, exc |-> "AttributeError",
     rot |-> 0, two |-> FALSE]

\* what the tree held before a call, kept in last.ret
Held(rt, len, k) == [held |-> contains(rt, k), length |-> len]

\* absmap and net are the history of the AVL machine above; the trader's
\* actions leave them as constructed.

SetAllMaterials(mats) ==
    /\ LET r == set_all_materials(mats)
       IN /\ root' = r.node
          /\ length' = r.length
          /\ last' = [op |-> "set_all_materials", a |-> Len(mats), b |-> 0,
                      raised |-> r.raised, exc |-> r.exc, rot |-> r.rot,
                      two |-> FALSE, ret |-> None]
    /\ UNCHANGED <<absmap, net, rotVars, hashVars, primeVars, gameVars>>

AddMaterial(m) ==
    /\ LET r == add_material(root, length, m)
       IN /\ root' = r.node
          /\ length' = r.length
          /\ last' = [op |-> "add_material", a |-> m.mining_rate, b |-> m.mat,
                      raised |-> r.raised, exc |-> r.exc, rot |-> r.rot,
                      two |-> FALSE, ret |-> None]
    /\ UNCHANGED <<absmap, net, rotVars, hashVars, primeVars, gameVars>>

RemoveMaterial(m) ==
    /\ LET r == remove_material(root, length, m)
       IN /\ root' = r.node
          /\ length' = r.length
          /\ last' = [op |-> "remove_material", a |-> m.mining_rate,
                      b |-> m.mat, raised |-> r.raised, exc |-> r.exc,
                      rot |-> r.rot, two |-> r.two,
                      ret |-> Held(root, length, m.mining_rate)]
    /\ UNCHANGED <<absmap, net, rotVars, hashVars, primeVars, gameVars>>

MatLists ==
    UNION {[1..n -> Materials] : n \in 0..MaxMats}

NextTrader ==
    \/ \E mats \in MatLists : SetAllMaterials(mats)
    \/ \E m \in Materials : AddMaterial(m)
    \/ \E m \in Materials : RemoveMaterial(m)

SpecTrader == InitTrader /\ [][NextTrader]_vars

\* C17 as claimed: after remove_material(mat) for a material the tree held
\* (added by add_material or set_all_materials), mat.mining_rate is no longer
\* a key of the tree and the tree's length is one less.
C17_RemoveClaimed ==
    (last.op = "remove_material" /\ last.ret.held) =>
        /\ ~contains(root, last.a)
        /\ length = last.ret.length - 1

\* what the code does: remove_material always raises AttributeError and the
\* tree is as it was.
RemoveMaterialRaises ==
    last.op = "remove_material" =>
        /\ last.raised /\ last.exc = "AttributeError"
        /\ contains(root, last.a) = last.ret.held
        /\ length = last.ret.length
        /\ length = NodeCount(root)

(* ------------------- hash_table.py: LinearProbeTable ------------------- *)

MaxExpected == 3
MaxOverride == 3
MaxProbes == 3
MaxConflicts == 2

\* the keys used: "", "a", "b", "ab", each the sequence of its ord() codes
HashKeys == {<<>>, <<97>>, <<98>>, <<97, 98>>}

\* referential_array.ArrayR(length): length slots holding None
ArrayR(n) == [i \in 1..n |-> None]

\* lines 79-81, for key[idx..]; a modulus of 0 is ZeroDivisionError
RECURSIVE hash_loop(_, _, _, _, _)
hash_loop(key, idx, value, a, n) ==
    IF idx > Len(key) THEN [raised |-> FALSE, exc |-> NoError, value |-> value]
    ELSE IF n = 0 \/ n - 1 = 0
    THEN [raised |-> TRUE, exc |-> "ZeroDivisionError", value |-> 0]
    ELSE hash_loop(key, idx + 1, (key[idx] + a * value) % n,
                   (a * 27183) % (n - 1), n)

hash(t, key) == hash_loop(key, 1, 0, 31415, Len(t.table))

is_full(t) == t.count = Len(t.table)

\* lines 136-157: pass i of the loop, at position, with cur_probe_chain
RECURSIVE probe_loop(_, _, _, _, _, _)
probe_loop(t, key, is_insert, position, cur_probe_chain, i) ==
    IF i >= Len(t.table)
    THEN [raised |-> TRUE, exc |-> "KeyError", position |-> position, t |-> t]
    ELSE LET slot == t.table[position + 1]
             found == [raised |-> FALSE, exc |-> NoError,
                       position |-> position,
                       t |-> [t EXCEPT !.probe_max =
                                 Max(cur_probe_chain, t.probe_max)]]
         IN IF slot = None
            THEN IF is_insert
                 THEN found
                 ELSE [raised |-> TRUE, exc |-> "KeyError",
                       position |-> position, t |-> t]
            ELSE IF slot.key = key
            THEN found
            ELSE probe_loop([t EXCEPT !.probe_total = @ + 1], key, is_insert,
                            (position + 1) % Len(t.table),
                            cur_probe_chain + 1, i + 1)

linear_probe(t, key, is_insert) ==
    LET h == hash(t, key)
    IN IF h.raised
       THEN [raised |-> TRUE, exc |-> h.exc, position |-> 0, t |-> t]
       ELSE IF is_insert /\ is_full(t)
       THEN [raised |-> TRUE, exc |-> "KeyError", position |-> h.value,
             t |-> t]
       ELSE probe_loop(t, key, is_insert, h.value, 0, 0)

\* int(n * 2.2)
times_2_2(n) == (22 * n) \div 10

RECURSIVE hash_setitem(_, _, _), rehash_loop(_, _, _)

\* lines 265-271: old_table[i..] moved into the new table
rehash_loop(old_table, i, t) ==
    IF i > Len(old_table) THEN [raised |-> FALSE, exc |-> NoError, t |-> t]
    ELSE IF old_table[i] = None THEN rehash_loop(old_table, i + 1, t)
    ELSE LET r == hash_setitem(t, old_table[i].key, old_table[i].data)
         IN IF r.raised THEN r ELSE rehash_loop(old_table, i + 1, r.t)

\* lines 258-274; ArrayR(None) raises before anything is assigned
rehash(t) ==
    LET p == prime_next([upper_bound |-> times_2_2(t.tablesize),
                         factor |-> 2])
    IN IF p.none
       THEN [raised |-> TRUE, exc |-> "TypeError", t |-> t]
       ELSE LET r == rehash_loop(t.table, 1,
                        [t EXCEPT !.table = ArrayR(p.ret), !.count = 0,
                                  !.tablesize = p.ret])
            IN IF r.raised THEN r
               ELSE [r EXCEPT !.t.rehash_count = @ + 1]

\* __setitem__ counting every call, an overwrite included
hash_setitem_counts_overwrite(t, key, data) ==
    LET h == IF 2 * t.count > t.tablesize
             THEN rehash(t)
             ELSE [raised |-> FALSE, exc |-> NoError, t |-> t]
    IN IF h.raised THEN h
       ELSE LET r == linear_probe(h.t, key, TRUE)
            IN IF r.raised
               THEN [raised |-> TRUE, exc |-> r.exc, t |-> r.t]
               ELSE [raised |-> FALSE, exc |-> NoError,
                     t |-> [r.t EXCEPT
                              !.count = @ + 1,
                              !.table[r.position + 1] =
                                  [key |-> key, data |-> data]]]

\* lines 213-221
hash_setitem(t, key, data) ==
    LET h == IF 2 * t.count > t.tablesize
             THEN rehash(t)
             ELSE [raised |-> FALSE, exc |-> NoError, t |-> t]
    IN IF h.raised THEN h
       ELSE LET r == linear_probe(h.t, key, TRUE)
            IN IF r.raised
               THEN [raised |-> TRUE, exc |-> r.exc, t |-> r.t]
               ELSE [raised |-> FALSE, exc |-> NoError,
                     t |-> [r.t EXCEPT
                              !.count = IF r.t.table[r.position + 1] = None
                                        THEN @ + 1 ELSE @,
                              !.table[r.position + 1] =
                                  [key |-> key, data |-> data]]]

\* lines 200-201
hash_getitem(t, key) ==
    LET r == linear_probe(t, key, FALSE)
    IN IF r.raised
       THEN [raised |-> TRUE, exc |-> r.exc, ret |-> NoItem, t |-> r.t]
       ELSE [raised |-> FALSE, exc |-> NoError,
             ret |-> r.t.table[r.position + 1].data, t |-> r.t]

\* lines 184-189: only KeyError is caught
hash_contains(t, key) ==
    LET r == hash_getitem(t, key)
    IN IF r.raised /\ r.exc # "KeyError"
       THEN [raised |-> TRUE, exc |-> r.exc, found |-> FALSE, t |-> r.t]
       ELSE [raised |-> FALSE, exc |-> NoError, found |-> ~r.raised,
             t |-> r.t]

\* lines 159-167: the keys of the slots in use, in slot order
RECURSIVE keys_loop(_, _, _)
keys_loop(t, x, res) ==
    IF x > Len(t.table) THEN res
    ELSE keys_loop(t, x + 1,
                   IF t.table[x] # None THEN Append(res, t.table[x].key)
                   ELSE res)

keys(t) == keys_loop(t, 1, <<>>)

\* lines 101-109, for ks[idx..], with the list hashes
RECURSIVE statistics_loop(_, _, _, _)
statistics_loop(t, ks, idx, hashes) ==
    IF idx > Len(ks) THEN [raised |-> FALSE, exc |-> NoError, t |-> t]
    ELSE LET cur_hash == hash(t, ks[idx])
         IN IF cur_hash.raised
            THEN [raised |-> TRUE, exc |-> cur_hash.exc, t |-> t]
            ELSE IF \E n \in 1..Len(hashes) : hashes[n] = cur_hash.value
            THEN statistics_loop([t EXCEPT !.conflict_count = @ + 1],
                                 ks, idx + 1, hashes)
            ELSE statistics_loop(t, ks, idx + 1,
                                 Append(hashes, cur_hash.value))

\* lines 84-111
statistics(t) ==
    LET r == statistics_loop(t, keys(t), 1, <<>>)
    IN [raised |-> r.raised, exc |-> r.exc, t |-> r.t,
        ret |-> IF r.raised THEN NoItem
                ELSE <<r.t.conflict_count, r.t.probe_total, r.t.probe_max,
                       r.t.rehash_count>>]

\* lines 45-51: the table size asked of the constructor; none when the prime
\* iterator returns None
init_tablesize(expected_size, tablesize_override) ==
    IF tablesize_override > 0 - 1
    THEN [ret |-> tablesize_override, none |-> FALSE]
    ELSE LET p == prime_next([upper_bound |-> times_2_2(expected_size),
                              factor |-> 2])
         IN [ret |-> p.ret, none |-> p.none]

NoTable ==
    [table |-> <<>>, count |-> 0, tablesize |-> 0, conflict_count |-> 0,
     probe_total |-> 0, probe_max |-> 0, rehash_count |-> 0]

HashLast(op, key, data, r, ret, found) ==
    [op |-> op, key |-> key, data |-> data, raised |-> r.raised,
     exc |-> r.exc, ret |-> ret, found |-> found]

\* LinearProbeTable(expected_size, tablesize_override), without override or
\* with an override of at least 1 (what ArrayR(0) does is decided outside
\* src/). ArrayR(None), asked for when the prime iterator returned None,
\* raises and no table exists.
InitHash ==
    /\ \E expected_size \in 0..MaxExpected,
          tablesize_override \in {0 - 1} \cup 1..MaxOverride :
          LET n == init_tablesize(expected_size, tablesize_override)
          IN /\ ht = IF n.none THEN NoTable
                     ELSE [NoTable EXCEPT !.table = ArrayR(n.ret),
                                          !.tablesize = n.ret]
             /\ hlast = HashLast("init", <<>>, NoItem,
                                 [raised |-> n.none,
                                  exc |-> IF n.none THEN "TypeError"
                                          ELSE NoError],
                                 NoItem, FALSE)
    /\ hmap = [k \in HashKeys |-> NoItem]
    /\ AvlIdle /\ RotIdle /\ PrimeIdle /\ GameIdle

\* a table was constructed
HashBuilt == ~(hlast.op = "init" /\ hlast.raised)

SetItem(key, data) ==
    /\ HashBuilt
    /\ ht.probe_total < MaxProbes
    /\ \E r \in {hash_setitem(ht, key, data)} :
          /\ ht' = r.t
          /\ hlast' = HashLast("setitem", key, data, r, NoItem, FALSE)
          /\ hmap' = IF r.raised THEN hmap ELSE [hmap EXCEPT ![key] = data]
    /\ UNCHANGED <<avlVars, rotVars, primeVars, gameVars>>

GetItem(key) ==
    /\ HashBuilt
    /\ ht.probe_total < MaxProbes
    /\ \E r \in {hash_getitem(ht, key)} :
          /\ ht' = r.t
          /\ hlast' = HashLast("getitem", key, NoItem, r, r.ret, FALSE)
    /\ UNCHANGED <<hmap, avlVars, rotVars, primeVars, gameVars>>

Contains(key) ==
    /\ HashBuilt
    /\ ht.probe_total < MaxProbes
    /\ \E r \in {hash_contains(ht, key)} :
          /\ ht' = r.t
          /\ hlast' = HashLast("contains", key, NoItem, r, NoItem, r.found)
    /\ UNCHANGED <<hmap, avlVars, rotVars, primeVars, gameVars>>

Statistics ==
    /\ HashBuilt
    /\ ht.conflict_count < MaxConflicts
    /\ \E r \in {statistics(ht)} :
          /\ ht' = r.t
          /\ hlast' = HashLast("statistics", <<>>, NoItem, r, r.ret, FALSE)
    /\ UNCHANGED <<hmap, avlVars, rotVars, primeVars, gameVars>>

NextHash ==
    \/ \E key \in HashKeys, data \in Items : SetItem(key, data)
    \/ \E key \in HashKeys : GetItem(key)
    \/ \E key \in HashKeys : Contains(key)
    \/ Statistics

SpecHash == InitHash /\ [][NextHash]_vars

\* C15 as claimed: on any table, after any run of __setitem__ calls, table[k]
\* returns the data last set for k for every key that was set, and for every
\* key never set __getitem__ raises KeyError and __contains__ returns False.
C15_LastWriteClaimed ==
    /\ hlast.op = "getitem" =>
          IF hmap[hlast.key] # NoItem
          THEN ~hlast.raised /\ hlast.ret = hmap[hlast.key]
          ELSE hlast.raised /\ hlast.exc = "KeyError"
    /\ (hlast.op = "contains" /\ hmap[hlast.key] = NoItem) =>
          ~hlast.raised /\ ~hlast.found

\* what does hold: the same on every table of at least two slots, where also
\* no __setitem__ raises; a table of one slot is one built with
\* tablesize_override 1.
LastWriteFromTwoSlots ==
    (HashBuilt /\ Len(ht.table) >= 2) =>
        /\ hlast.op = "setitem" => ~hlast.raised
        /\ ht.count = Cardinality({k \in HashKeys : hmap[k] # NoItem})
        /\ \A k \in HashKeys :
              LET g == hash_getitem(ht, k)
                  c == hash_contains(ht, k)
              IN IF hmap[k] # NoItem
                 THEN ~g.raised /\ g.ret = hmap[k] /\ ~c.raised /\ c.found
                 ELSE /\ g.raised /\ g.exc = "KeyError"
                      /\ ~c.raised /\ ~c.found

(* -------------------- further claims about the tree -------------------- *)

\* the subtree whose root holds key k
RECURSIVE NodeAt(_, _)
NodeAt(t, k) ==
    IF t = None THEN None
    ELSE IF k = t.key THEN t
    ELSE IF k < t.key THEN NodeAt(t.left, k)
    ELSE NodeAt(t.right, k)

MinOf(S) == CHOOSE m \in S : \A x \in S : m <= x

\* C21: a delete that finds its key at a node with two children gives that
\* node the key and item of the minimum of its right subtree (its left and
\* right links staying), and the recursive delete of that key in the right
\* subtree finds it at a node without left child: it returns without raising,
\* without a second two-children case, having taken 1 from length.
C21_TwoChildDelete ==
    [][(last'.op = "delete" /\ last'.two) =>
          LET n == NodeAt(root, last'.a)
              succ == get_successor(n)
              c1 == copy_successor(n, succ)
              r == delete_aux(c1.right, succ.key, length)
          IN /\ n # None /\ n.left # None /\ n.right # None
             /\ succ.key = MinOf(KeysOf(n.right))
             /\ succ.key > n.key
             /\ <<succ.key, succ.item>> \in PairsOf(n.right)
             /\ c1.key = succ.key /\ c1.item = succ.item
             /\ c1.left = n.left /\ c1.right = n.right
             /\ NodeAt(n.right, succ.key).left = None
             /\ ~r.raised /\ ~r.two
             /\ r.length = length - 1
             /\ KeysOf(r.node) = KeysOf(n.right) \ {succ.key}
             /\ ~last'.raised
             /\ length' = length - 1
             /\ PairsOf(root') = {e \in PairsOf(root) : e[1] # last'.a}
      ]_vars

\* a two-children delete of key 2 in a tree of four keys
C21_Witness ==
    /\ last.op = "delete" /\ last.two /\ ~last.raised
    /\ length = 3 /\ last.a = 2 /\ KeysOf(root) = {1, 3, 4}

\* N(h): the fewest nodes of an AVL tree of height h
RECURSIVE MinNodes(_)
MinNodes(h) ==
    IF h <= 0 THEN 0
    ELSE IF h = 1 THEN 1
    ELSE 1 + MinNodes(h - 1) + MinNodes(h - 2)

\* the nodes a search for key k visits below and including t
RECURSIVE PathNodes(_, _)
PathNodes(t, k) ==
    IF t = None THEN 0
    ELSE IF k = t.key THEN 1
    ELSE IF k < t.key THEN 1 + PathNodes(t.left, k)
    ELSE 1 + PathNodes(t.right, k)

\* the nodes get_max walks over: the right spine
RECURSIVE RightSpine(_)
RightSpine(t) == IF t = None THEN 0 ELSE 1 + RightSpine(t.right)

\* C22: after any inserts and deletes the cached root height h is the true
\* height, the tree holds at least N(h) keys, and no descent of insert, delete
\* or get_max passes more than h nodes.
C22_LogHeight ==
    LET h == get_height(root)
    IN /\ h = TrueHeight(root)
       /\ length = NodeCount(root)
       /\ length >= MinNodes(h)
       /\ \A k \in Keys : PathNodes(root, k) <= h
       /\ RightSpine(root) <= h

\* a delete that had to rotate to keep three keys at height 2
C22_Witness ==
    /\ last.op = "delete" /\ ~last.raised /\ last.rot >= 1
    /\ length = 3 /\ get_height(root) = 2

(* ------------- range_between as a function of a balanced tree ---------- *)

MaxRangeNodes == 10

\* all AVL trees over the keys lo..hi with true cached fields. Each is a
\* tree the program reaches: inserting its keys level by level passes only
\* through balanced trees, so no insert rotates.
RECURSIVE AVLs(_, _)
AVLs(lo, hi) ==
    IF lo > hi THEN {None}
    ELSE UNION {{NodeOver(k, l, r) :
                    <<l, r>> \in {p \in AVLs(lo, k - 1) \X AVLs(k + 1, hi) :
                                     /\ get_height(p[1]) - get_height(p[2]) <= 1
                                     /\ get_height(p[2]) - get_height(p[1]) <= 1}}
                : k \in lo..hi}

RangeTrees == UNION {AVLs(1, n) : n \in 0..MaxRangeNodes}

\* rstep.arg is the tree, rstep.ret what the last call was given and returned
InitRange ==
    /\ \E t \in RangeTrees : rstep = [op |-> "tree", arg |-> t, ret |-> None]
    /\ AvlIdle /\ HashIdle /\ PrimeIdle /\ GameIdle

\* one call of range_between on the tree as built
RangeQuery(i, j) ==
    /\ rstep.op = "tree"
    /\ i <= get_tree_size(rstep.arg) /\ j <= get_tree_size(rstep.arg)
    /\ LET t == rstep.arg
           len == get_tree_size(t)
       IN rstep' = [op |-> "range_between", arg |-> t,
                    ret |-> [i |-> i, j |-> j,
                             l |-> range_between(t, len, i, j),
                             visits |-> range_between_visits(t, i, j, len - 1)]]
    /\ UNCHANGED <<avlVars, hashVars, primeVars, gameVars>>

NextRange ==
    \E i \in (0 - 1)..MaxRangeNodes, j \in (0 - 1)..MaxRangeNodes :
        RangeQuery(i, j)

SpecRange == InitRange /\ [][NextRange]_vars

\* C23: a call range_between(i, j) with 0 <= i <= j < length visits at most
\* (j - i + 1) + 2 * height(root) nodes: the j - i + 1 nodes of the window,
\* each once, and at most 2 * height(root) nodes of rank outside i..j.
C23_RangeWork ==
    (/\ rstep.op = "range_between"
     /\ 0 <= rstep.ret.i /\ rstep.ret.i <= rstep.ret.j
     /\ rstep.ret.j < get_tree_size(rstep.arg)) =>
        LET window == rstep.ret.j - rstep.ret.i + 1
        IN /\ Len(rstep.ret.l) = window
           /\ rstep.ret.visits >= window
           /\ rstep.ret.visits - window <= 2 * get_height(rstep.arg)
           /\ rstep.ret.visits <= window + 2 * get_height(rstep.arg)

\* a one-item window in a tree of more nodes than 1 + 2 * height
C23_Witness ==
    /\ rstep.op = "range_between"
    /\ rstep.ret.i = 4 /\ rstep.ret.j = 4
    /\ get_tree_size(rstep.arg) > 1 + 2 * get_height(rstep.arg)
    /\ rstep.ret.visits < get_tree_size(rstep.arg)

(* ------------ game.py / player.py: a day of the simulation ------------- *)

MaxGameCaves == 2
MaxTraders == 2
MaxGamePlayers == 2
MaxDays == 1

\* the game's materials: names "a" and "b" as ord() codes, mining rates that
\* divide every hunger value used, so that the code's float divisions are
\* exact
GameMaterials ==
    <<[name |-> <<97>>, mining_rate |-> 2],
      [name |-> <<98>>, mining_rate |-> 1]>>

\* a cave: the index of its material in GameMaterials, and its quantity
GameCaves == [material : 1..Len(GameMaterials), quantity : {2, 4}]

\* a trader's current deal: (material, selling price)
Deals == [material : 1..Len(GameMaterials), price : {2, 4}]

\* Food(name, hunger_bars, price): both positive integers
Foods == [hunger_bars : {2, 4}, price : {1, 3}]

PlayerBalances == {1, 3}

SeqsUpTo(S, lo, hi) == UNION {[1..n -> S] : n \in lo..hi}

\* F(e), with e evaluated once before F uses it
Bind(e, F(_)) == CHOOSE y \in {F(x) : x \in {e}} : TRUE

\* LinearProbeTable(expected_size), as InitHash builds it
new_table(expected_size) ==
    LET n == init_tablesize(expected_size, 0 - 1)
    IN [NoTable EXCEPT !.table = ArrayR(n.ret), !.tablesize = n.ret]

\* game.py 409-410, player.py 181-182: trader_materials[mat.name] = 0
RECURSIVE put_materials(_, _, _)
put_materials(t, materials, idx) ==
    IF idx > Len(materials) THEN t
    ELSE Bind(hash_setitem(t, materials[idx].name, 0).t,
              LAMBDA t1 : put_materials(t1, materials, idx + 1))

\* game.py 412-417, player.py 184-189: the best price per material name
RECURSIVE put_deals(_, _, _)
put_deals(t, deals, idx) ==
    IF idx > Len(deals) THEN t
    ELSE LET name == GameMaterials[deals[idx].material].name
         IN Bind(hash_getitem(t, name),
                 LAMBDA cur :
                     Bind(hash_setitem(cur.t, name,
                                       Max(deals[idx].price, cur.ret)).t,
                          LAMBDA t1 : put_deals(t1, deals, idx + 1)))

\* game.py 406-417, player.py 178-189
trader_materials(deals) ==
    put_deals(put_materials(new_table(Len(GameMaterials)), GameMaterials, 1),
              deals, 1)

\* trader_materials[cave.material.name]
price_of(tm, cave) ==
    hash_getitem(tm, GameMaterials[cave.material].name).ret

rate_of(cave) == GameMaterials[cave.material].mining_rate

\* the node holding key k gets a new item: a LinkedStack held in the tree
\* is pushed to or popped from through the reference the tree returned
RECURSIVE stack_update(_, _, _)
stack_update(t, k, item) ==
    IF t = None THEN None
    ELSE IF k = t.key THEN [t EXCEPT !.item = item]
    ELSE IF k < t.key THEN [t EXCEPT !.left = stack_update(t.left, k, item)]
    ELSE [t EXCEPT !.right = stack_update(t.right, k, item)]

\* game.py 435-438, 484-486, player.py 212-215:
\*   if key not in tree: tree[key] = LinkedStack()
\*   tree[key].push(entry)
tree_push(tr, key, entry) ==
    LET t1 == IF contains(tr.node, key) THEN tr
              ELSE LET r == setitem(tr.node, tr.length, key, <<>>)
                   IN [node |-> r.node, length |-> r.length]
    IN [t1 EXCEPT !.node =
           stack_update(t1.node, key,
                        Append(getitem(t1.node, key).ret, entry))]

\* del tree[key]
tree_del(tr, key) ==
    LET r == delitem(tr.node, tr.length, key)
    IN [node |-> r.node, length |-> r.length]

EmptyTree == [node |-> None, length |-> 0]

\* game.py 424-438: the caves a trader buys from, keyed by the most emeralds
\* one visit can earn, each entry (cave, quantity already mined)
RECURSIVE max_cave_emeralds(_, _, _, _, _)
max_cave_emeralds(tr, tm, caves, food, idx) ==
    IF idx > Len(caves) THEN tr
    ELSE LET cave == caves[idx]
             best_selling_price == price_of(tm, cave)
             max_quantity_mined ==
                 Min(cave.quantity, food.hunger_bars \div rate_of(cave))
             max_emeralds == max_quantity_mined * best_selling_price
         IN Bind(IF best_selling_price > 0
                 THEN tree_push(tr, max_emeralds, [cave |-> idx, mined |-> 0])
                 ELSE tr,
                 LAMBDA tr1 : max_cave_emeralds(tr1, tm, caves, food, idx + 1))

\* game.py 447-494: the loop body for one player. `cave` is the variable
\* the loop of line 424 left behind: the last cave of self.caves.
select_player(st, tm, caves, food, balance) ==
    IF ~(balance >= food.price)
    THEN [st EXCEPT !.foods = Append(@, None),
                    !.balances = Append(@, balance),
                    !.caves = Append(@, None)]
    ELSE LET g == get_max(st.tree.node)
         IN IF g.raised
            THEN [st EXCEPT !.raised = TRUE, !.exc = g.exc]
            ELSE
            LET max_earnings == g.ret[1]
                max_caves == g.ret[2]
                top == max_caves[Len(max_caves)]
                popped == SubSeq(max_caves, 1, Len(max_caves) - 1)
                max_cave == caves[top.cave]
                selling_price == price_of(tm, max_cave)
                cave == caves[Len(caves)]
            IN IF max_earnings > food.price
               THEN LET quantity_mined == max_earnings \div selling_price
                        t1 == [st.tree EXCEPT !.node =
                                  stack_update(@, max_earnings, popped)]
                        t2 == IF Len(popped) = 0
                              THEN tree_del(t1, max_earnings) ELSE t1
                        left_over ==
                            max_cave.quantity - top.mined - quantity_mined
                        left_over_profit ==
                            Min(left_over,
                                food.hunger_bars \div rate_of(cave))
                            * selling_price
                        t3 == IF left_over > 0
                              THEN tree_push(t2, left_over_profit,
                                       [cave |-> top.cave,
                                        mined |-> quantity_mined + top.mined])
                              ELSE t2
                    IN [st EXCEPT
                          !.tree = t3,
                          !.foods = Append(@, food),
                          !.balances =
                              Append(@, balance - food.price + max_earnings),
                          !.caves = Append(@, [cave |-> top.cave,
                                               quantity |-> quantity_mined])]
               ELSE [st EXCEPT
                       !.tree.node = stack_update(@, max_earnings, max_caves),
                       !.foods = Append(@, None),
                       !.balances = Append(@, balance),
                       !.caves = Append(@, None)]

RECURSIVE select_loop(_, _, _, _, _, _)
select_loop(st, tm, caves, food, players, idx) ==
    IF idx > Len(players) \/ st.raised THEN st
    ELSE Bind(select_player(st, tm, caves, food, players[idx]),
              LAMBDA st1 : select_loop(st1, tm, caves, food, players, idx + 1))

\* game.py 381-496
select_for_players(caves, deals, players, food) ==
    Bind(trader_materials(deals),
         LAMBDA tm :
             Bind(max_cave_emeralds(EmptyTree, tm, caves, food, 1),
                  LAMBDA tr :
                      select_loop([tree |-> tr, foods |-> <<>>,
                                   balances |-> <<>>, caves |-> <<>>,
                                   raised |-> FALSE, exc |-> NoError],
                                  tm, caves, food, players, 1)))

\* game.py 532-535: the best price a trader pays for the material
RECURSIVE max_sell_price(_, _, _, _)
max_sell_price(deals, material, idx, best) ==
    IF idx > Len(deals) THEN best
    ELSE max_sell_price(deals, material, idx + 1,
                        IF deals[idx].material = material
                           /\ deals[idx].price > best
                        THEN deals[idx].price ELSE best)

\* game.py 506-542 for players idx.. ; an assert that fails ends the call
\* with what the earlier passes have written
RECURSIVE verify_multi(_, _, _, _)
verify_multi(v, deals, sel, idx) ==
    IF idx > Len(v.players) \/ v.raised THEN v
    ELSE LET food == sel.foods[idx]
             affordable == food = None \/ food.price < v.players[idx]
             balance0 == IF food = None THEN v.players[idx]
                         ELSE v.players[idx] - food.price
             visit == sel.caves[idx]
             quantity_ok ==
                 visit = None \/ visit.quantity <= v.caves[visit.cave].quantity
             caves1 ==
                 IF visit = None THEN v.caves
                 ELSE [v.caves EXCEPT ![visit.cave].quantity =
                                         Max(@ - visit.quantity, 0)]
             possible_balance ==
                 IF visit = None THEN balance0
                 ELSE balance0 + visit.quantity *
                          max_sell_price(deals, v.caves[visit.cave].material,
                                         1, 0)
         IN IF ~affordable
            THEN [v EXCEPT !.raised = TRUE, !.failed = "food", !.at = idx]
            ELSE IF ~quantity_ok
            THEN [v EXCEPT !.raised = TRUE, !.failed = "quantity",
                           !.at = idx]
            ELSE IF ~(sel.balances[idx] <= possible_balance)
            THEN [v EXCEPT !.caves = caves1, !.raised = TRUE,
                           !.failed = "balance", !.at = idx]
            ELSE Bind([v EXCEPT !.caves = caves1,
                                !.players[idx] = sel.balances[idx]],
                      LAMBDA v1 : verify_multi(v1, deals, sel, idx + 1))

\* MultiplayerGame after initialise_with_data: caves and players (their
\* balances); no day simulated yet
InitMulti ==
    /\ \E caves \in SeqsUpTo(GameCaves, 0, MaxGameCaves),
          players \in SeqsUpTo(PlayerBalances, 0, MaxGamePlayers) :
          gp = [pc |-> "multi", day |-> 0, caves |-> caves,
                players |-> players, deals |-> <<>>, food |-> None,
                before |-> players, sel |-> None, ver |-> None]
    /\ AvlIdle /\ RotIdle /\ HashIdle /\ PrimeIdle

NotVerified == [raised |-> FALSE, failed |-> "none", at |-> 0]

\* game.py 364-379: the traders' deals and the offered food are drawn, then
\* select_for_players and verify_output_and_update_quantities run; an
\* exception in either ends the program
MultiSimulateDay(deals, food) ==
    /\ gp.pc = "multi"
    /\ gp.day < MaxDays
    /\ gp.day > 0 => (~gp.sel.raised /\ ~gp.ver.raised)
    /\ \E sel \in {select_for_players(gp.caves, deals, gp.players, food)} :
       \E v \in {IF sel.raised
                 THEN [caves |-> gp.caves, players |-> gp.players]
                      @@ NotVerified
                 ELSE verify_multi([caves |-> gp.caves,
                                    players |-> gp.players] @@ NotVerified,
                                   deals, sel, 1)} :
          gp' = [gp EXCEPT !.day = @ + 1, !.deals = deals, !.food = food,
                           !.before = gp.players,
                           !.caves = v.caves, !.players = v.players,
                           !.sel = [raised |-> sel.raised, exc |-> sel.exc,
                                    foods |-> sel.foods,
                                    balances |-> sel.balances,
                                    caves |-> sel.caves],
                           !.ver = [raised |-> v.raised, failed |-> v.failed,
                                    at |-> v.at]]
    /\ UNCHANGED <<avlVars, rotVars, hashVars, primeVars>>

NextMulti ==
    \E deals \in SeqsUpTo(Deals, 0, MaxTraders), food \in Foods :
        MultiSimulateDay(deals, food)

SpecMulti == InitMulti /\ [][NextMulti]_vars

\* C24 as claimed: select_for_players calls get_max only on a non-empty
\* tree, so it raises nothing and returns three lists with one entry per
\* player.
C24_GetMaxGuarded ==
    (gp.pc = "multi" /\ gp.day > 0) =>
        /\ ~gp.sel.raised
        /\ Len(gp.sel.foods) = Len(gp.players)
        /\ Len(gp.sel.balances) = Len(gp.players)
        /\ Len(gp.sel.caves) = Len(gp.players)

\* C25 as claimed: whatever select_for_players returns passes every
\* assertion of verify_output_and_update_quantities.
C25_MultiVerifyAccepts ==
    (gp.pc = "multi" /\ gp.day > 0 /\ ~gp.sel.raised) => ~gp.ver.raised

\* C27 as claimed: the quantity a player is assigned times the mining rate
\* of the material of the cave assigned does not exceed the hunger bars of
\* the offered food.
C27_HungerLimit ==
    (gp.pc = "multi" /\ gp.day > 0 /\ ~gp.sel.raised) =>
        \A n \in 1..Len(gp.sel.caves) :
            gp.sel.caves[n] # None =>
                gp.sel.caves[n].quantity * rate_of(gp.caves[gp.sel.caves[n].cave])
                    <= gp.food.hunger_bars

\* what the code does. select_for_players fails exactly when a player who
\* can pay for the food is reached with the tree empty; the only assertion
\* that fails is the food one, for a player whose balance equals the price;
\* a first visit keeps to the hunger limit.
MultiDayFacts ==
    (gp.pc = "multi" /\ gp.day > 0) =>
        /\ gp.sel.raised => gp.sel.exc = "AttributeError"
        /\ gp.ver.raised =>
              /\ gp.ver.failed = "food"
              /\ gp.before[gp.ver.at] = gp.food.price
        /\ (~gp.sel.raised /\ Len(gp.sel.caves) >= 1
            /\ gp.sel.caves[1] # None) =>
              gp.sel.caves[1].quantity * rate_of(gp.caves[gp.sel.caves[1].cave])
                  <= gp.food.hunger_bars

(* ----------------- player.py / game.py: the solo game ------------------ *)

MaxFoods == 2

\* player.py 204-215: every cave, keyed by emeralds per hunger bar; the
\* test `selling_price is not None` never fails, the table holds 0 for a
\* material no trader buys
RECURSIVE caves_money_hunger_ratio(_, _, _, _)
caves_money_hunger_ratio(tr, tm, caves, idx) ==
    IF idx > Len(caves) THEN tr
    ELSE LET cave == caves[idx]
             selling_price == price_of(tm, cave)
             sell_hunger_ratio == selling_price \div rate_of(cave)
         IN Bind(tree_push(tr, sell_hunger_ratio, idx),
                 LAMBDA tr1 :
                     caves_money_hunger_ratio(tr1, tm, caves, idx + 1))

\* player.py 226-253: the mining loop of one food
RECURSIVE mine_loop(_, _, _)
mine_loop(m, tm, caves) ==
    IF ~(m.hunger_bars > 0 /\ m.tree.length > 0) \/ m.raised THEN m
    ELSE LET g == get_max(m.tree.node)
         IN IF g.raised THEN [m EXCEPT !.raised = TRUE, !.exc = g.exc]
            ELSE
            LET ratio == g.ret[1]
                best_cave_stack == g.ret[2]
                best == best_cave_stack[Len(best_cave_stack)]
                popped == SubSeq(best_cave_stack, 1, Len(best_cave_stack) - 1)
                best_cave == caves[best]
                t1 == [m.tree EXCEPT !.node = stack_update(@, ratio, popped)]
                t2 == IF Len(popped) = 0 THEN tree_del(t1, ratio) ELSE t1
                all_needed == best_cave.quantity * rate_of(best_cave)
                quantity == IF all_needed > m.hunger_bars
                            THEN m.hunger_bars \div rate_of(best_cave)
                            ELSE best_cave.quantity
                hunger_needed == IF all_needed > m.hunger_bars
                                 THEN m.hunger_bars ELSE all_needed
            IN Bind([m EXCEPT
                       !.tree = t2,
                       !.caves_mined =
                           Append(@, [cave |-> best, quantity |-> quantity]),
                       !.hunger_bars = @ - hunger_needed,
                       !.emeralds = @ + quantity * price_of(tm, best_cave)],
                    LAMBDA m1 : mine_loop(m1, tm, caves))

\* player.py 197-259: the foods idx.. , keeping the best day so far
RECURSIVE food_loop(_, _, _, _, _, _)
food_loop(b, tm, caves, foods, balance, idx) ==
    IF idx > Len(foods) \/ b.raised THEN b
    ELSE LET food == foods[idx]
         IN Bind(
             Bind(caves_money_hunger_ratio(EmptyTree, tm, caves, 1),
                  LAMBDA tr :
                      mine_loop([tree |-> tr, caves_mined |-> <<>>,
                                 hunger_bars |-> food.hunger_bars,
                                 emeralds |-> balance - food.price,
                                 raised |-> FALSE, exc |-> NoError],
                                tm, caves)),
             LAMBDA m :
                 Bind(IF m.raised
                      THEN [b EXCEPT !.raised = TRUE, !.exc = m.exc]
                      ELSE IF m.emeralds > balance /\ m.emeralds > b.balance
                      THEN [b EXCEPT !.balance = m.emeralds,
                                     !.caves = m.caves_mined, !.food = food]
                      ELSE b,
                      LAMBDA b1 :
                          food_loop(b1, tm, caves, foods, balance, idx + 1)))

\* player.py 151-262
select_food_and_caves(caves, deals, foods, balance) ==
    IF Len(deals) = 0 \/ Len(foods) = 0 \/ Len(GameMaterials) = 0
       \/ Len(caves) = 0
    THEN [food |-> None, balance |-> balance, caves |-> <<>>,
          raised |-> TRUE, exc |-> "AssertionError"]
    ELSE Bind(trader_materials(deals),
              LAMBDA tm :
                  food_loop([food |-> None, balance |-> balance,
                             caves |-> <<>>, raised |-> FALSE,
                             exc |-> NoError],
                            tm, caves, foods, balance, 1))

\* game.py 279-289: the caves mined, idx.. ; v.possible is possible_balance
RECURSIVE verify_caves(_, _, _, _)
verify_caves(v, deals, mined, idx) ==
    IF idx > Len(mined) \/ v.raised THEN v
    ELSE LET visit == mined[idx]
         IN IF ~(visit.quantity <= v.caves[visit.cave].quantity)
            THEN [v EXCEPT !.raised = TRUE, !.failed = "quantity"]
            ELSE Bind([v EXCEPT
                         !.caves[visit.cave].quantity = @ - visit.quantity,
                         !.possible = @ + visit.quantity *
                             max_sell_price(deals,
                                            v.caves[visit.cave].material,
                                            1, 0)],
                      LAMBDA v1 : verify_caves(v1, deals, mined, idx + 1))

\* game.py 273-294; food None has no attribute price
verify_solo(caves, player, deals, sel) ==
    LET v0 == [caves |-> caves, player |-> player, possible |-> player,
               raised |-> FALSE, failed |-> "none"]
    IN IF sel.food = None
       THEN [v0 EXCEPT !.raised = TRUE, !.failed = "AttributeError"]
       ELSE IF ~(sel.food.price < player)
       THEN [v0 EXCEPT !.raised = TRUE, !.failed = "food"]
       ELSE LET v1 == verify_caves(
                          [v0 EXCEPT !.possible = player - sel.food.price],
                          deals, sel.caves, 1)
            IN IF v1.raised THEN v1
               ELSE IF ~(sel.balance <= v1.possible)
               THEN [v1 EXCEPT !.raised = TRUE, !.failed = "balance"]
               ELSE [v1 EXCEPT !.player = sel.balance]

\* SoloGame after initialise_with_data
InitSolo ==
    /\ \E caves \in SeqsUpTo(GameCaves, 0, MaxGameCaves),
          player \in PlayerBalances :
          gp = [pc |-> "solo", day |-> 0, caves |-> caves, player |-> player,
                deals |-> <<>>, foods |-> <<>>, before |-> player,
                sel |-> None, ver |-> None]
    /\ AvlIdle /\ RotIdle /\ HashIdle /\ PrimeIdle

\* game.py 234-256
SoloSimulateDay(deals, foods) ==
    /\ gp.pc = "solo"
    /\ gp.day < MaxDays
    /\ gp.day > 0 => (~gp.sel.raised /\ ~gp.ver.raised)
    /\ \E sel \in {select_food_and_caves(gp.caves, deals, foods, gp.player)} :
       \E v \in {IF sel.raised
                 THEN [caves |-> gp.caves, player |-> gp.player,
                       raised |-> FALSE, failed |-> "none"]
                 ELSE verify_solo(gp.caves, gp.player, deals, sel)} :
          gp' = [gp EXCEPT !.day = @ + 1, !.deals = deals, !.foods = foods,
                           !.before = gp.player,
                           !.caves = v.caves, !.player = v.player,
                           !.sel = sel,
                           !.ver = [raised |-> v.raised,
                                    failed |-> v.failed]]
    /\ UNCHANGED <<avlVars, rotVars, hashVars, primeVars>>

NextSolo ==
    \E deals \in SeqsUpTo(Deals, 0, MaxTraders),
       foods \in SeqsUpTo(Foods, 1, MaxFoods) :
        SoloSimulateDay(deals, foods)

SpecSolo == InitSolo /\ [][NextSolo]_vars

\* C26 as claimed: whatever select_food_and_caves returns, (None, balance,
\* []) and a food priced at or above the balance included, passes
\* verify_output_and_update_quantities, and the player's balance is then the
\* balance returned.
C26_SoloVerifyAccepts ==
    (gp.pc = "solo" /\ gp.day > 0 /\ ~gp.sel.raised) =>
        /\ ~gp.ver.raised
        /\ gp.player = gp.sel.balance

\* what the code does. select_food_and_caves fails only on its own asserts
\* (get_max is guarded by len(tree) > 0); verify fails exactly on a None food
\* (AttributeError) and on a food priced at or above the balance; quantities
\* and balance always pass.
SoloDayFacts ==
    (gp.pc = "solo" /\ gp.day > 0) =>
        /\ gp.sel.raised => gp.sel.exc = "AssertionError"
        /\ gp.ver.raised <=>
              /\ ~gp.sel.raised
              /\ \/ gp.sel.food = None
                 \/ gp.sel.food.price >= gp.before
        /\ gp.ver.raised =>
              gp.ver.failed = IF gp.sel.food = None THEN "AttributeError"
                              ELSE "food"
        /\ (~gp.sel.raised /\ ~gp.ver.raised) => gp.player = gp.sel.balance

\* C29: range_between(i, j), for any arguments, and get_max on a non-empty
\* tree leave the tree (shape, keys, items, cached heights and sizes) and
\* length as they were; the list range_between returns holds the items of
\* the ranks asked for and nothing else, so a second call with the same
\* arguments right after the first returns an equal list.
C29_QueriesReadOnly ==
    [][(last'.op = "range_between" \/ (last'.op = "get_max" /\ root # None))
        =>
        /\ root' = root
        /\ length' = length
        /\ last'.op = "get_max" => ~last'.raised
        /\ last'.op = "range_between" =>
              /\ last'.ret = SubSeq(SortedItems, Max(last'.a, 0) + 1,
                                    Min(last'.b, length - 1) + 1)
              /\ (/\ last.op = "range_between"
                  /\ last.a = last'.a /\ last.b = last'.b)
                     => last'.ret = last.ret
    ]_vars

\* the first two items of a tree of three keys were asked for
C29_Witness ==
    /\ last.op = "range_between" /\ last.a = 0 /\ last.b = 1
    /\ length = 3 /\ last.ret = <<"q", "p">>
    /\ root.height = 2

(* ------------------ further claims about the hash table ----------------- *)

Slots(t) == {i \in 1..Len(t.table) : t.table[i] # None}

StoredPairs(t) == {<<t.table[i].key, t.table[i].data>> : i \in Slots(t)}

KeysSet(m) == {k \in HashKeys : m[k] # NoItem}

\* C28: after every __setitem__, count is the number of slots in use and the
\* number of distinct keys set so far, and the table holds exactly the pairs
\* last set; a call that overwrites leaves count, a call for a new key adds
\* one; a call that rehashed left the pairs it found and took a strictly
\* larger tablesize; no call raises KeyError for a full table, and none
\* raises at all on a table of two slots or more, which every table of the
\* default prime size is; a call that raises leaves the table as it was.
C28_CountInvariant ==
    [][hlast'.op = "setitem" =>
        /\ ht'.count = Cardinality(Slots(ht'))
        /\ ht'.count = Cardinality(KeysSet(hmap'))
        /\ StoredPairs(ht') = {<<k, hmap'[k]>> : k \in KeysSet(hmap')}
        /\ hlast'.exc # "KeyError"
        /\ Len(ht.table) >= 2 => ~hlast'.raised
        /\ hlast'.raised => ht' = ht
        /\ ~hlast'.raised =>
              /\ ht'.count = IF hlast'.key \in KeysSet(hmap)
                             THEN ht.count ELSE ht.count + 1
              /\ IF ht'.rehash_count # ht.rehash_count
                 THEN /\ ht'.rehash_count = ht.rehash_count + 1
                      /\ ht'.tablesize > ht.tablesize
                      /\ Len(ht'.table) = ht'.tablesize
                 ELSE ht'.tablesize = ht.tablesize
              /\ {pr \in StoredPairs(ht') : pr[1] # hlast'.key}
                    = {pr \in StoredPairs(ht) : pr[1] # hlast'.key}
    ]_vars

\* a table of the default size that rehashed with three keys in it, and then
\* had one of its keys overwritten
C28_Witness ==
    /\ hlast.op = "setitem" /\ ~hlast.raised
    /\ ht.rehash_count >= 1
    /\ ht.count = 3 /\ ht.tablesize > 5
    /\ hmap[hlast.key] = "q"
    /\ \E k \in KeysSet(hmap) : hmap[k] = "p"

\* C30 as claimed: statistics() changes no field of the table, and a second
\* call right after a first returns the same tuple.
C30_StatisticsPure ==
    [][hlast'.op = "statistics" =>
        /\ ht' = ht
        /\ hlast.op = "statistics" => hlast'.ret = hlast.ret
    ]_vars

\* the keys stored after the first of their hash value: what one call of
\* statistics finds as conflicts
Repeats(t) ==
    Cardinality(Slots(t))
    - Cardinality({hash(t, t.table[i].key).value : i \in Slots(t)})

\* what the code does: every call adds the number of repeated hash values to
\* conflict_count and leaves every other field; the tuple returned holds the
\* fields after the addition.
StatisticsAccumulates ==
    [][(hlast'.op = "statistics" /\ ~hlast'.raised) =>
        /\ ht' = [ht EXCEPT !.conflict_count = @ + Repeats(ht)]
        /\ hlast'.ret = <<ht'.conflict_count, ht.probe_total, ht.probe_max,
                          ht.rehash_count>>
    ]_vars
====
